---- MODULE Spec2Model ----
(***************************************************************************)
(* VLC::MediaList (src/src/MediaList.hpp): a wrapper that owns a pointer   *)
(* to a libvlc_media_list_t and forwards every call to the engine.         *)
(*                                                                         *)
(* The wrapper's methods are translated from the header.  The engine's     *)
(* functions, libvlc_media_list_..., are not part of the header; they are  *)
(* modelled from the documented contract: a list is a sequence of media    *)
(* pointers with a read-only flag.                                         *)
(*                                                                         *)
(* Pointers are strings ("nullptr" is the null pointer).  A std::shared_ptr*)
(* is a record [null, obj]: null says whether the shared_ptr itself is     *)
(* empty, obj is the raw pointer held by the object it owns.               *)
(***************************************************************************)
EXTENDS Integers, Sequences, FiniteSets

\* Longest list the model builds.
MaxCount == 3

\* libvlc_media_t pointers handed to the wrapper.
MediaSet == {"A", "B"}

\* libvlc_media_list_t pointers (the engine's list resources).
Lists == {"L1", "L2"}

\* MediaList wrapper objects.
Wrappers == {"w1", "w2"}

\* Caller threads (used by the threaded specification only).
Threads == {"t1", "t2"}

\* Positions a caller passes: in range, and out of range on both sides.
Positions == (0 - 1) .. (MaxCount + 1)

\* Sequences of media of length at most n.
RECURSIVE SeqsUpTo(_)
SeqsUpTo(n) ==
    IF n = 0 THEN {<< >>}
    ELSE LET shorter == SeqsUpTo(n - 1)
         IN  shorter \cup {Append(s, m) : s \in {x \in shorter : Len(x) = n - 1}, m \in MediaSet}

VARIABLES
    items,           \* engine: items[l] is the sequence of media held by list l
    readonly,        \* engine: readonly[l], fixed at creation of the list
    m_obj,           \* wrapper: Internal<libvlc_media_list_t>::m_obj
    m_eventManager,  \* wrapper: the EventManagerPtr cache
    accessorCalls,   \* lists whose libvlc_media_list_event_manager was called
    last,            \* the last completed call: operation, arguments, result
    pc,              \* thread: position inside eventManager()
    tw,              \* thread: the wrapper eventManager() was called on
    tret,            \* thread: the EventManagerPtr its last call returned
    absentAtCheck,   \* thread: the cache was empty when line 230 read it
    constructed      \* thread: this call executed lines 232-233

vars == << items, readonly, m_obj, m_eventManager, accessorCalls, last,
           pc, tw, tret, absentAtCheck, constructed >>

listVars == << items, readonly, m_obj, m_eventManager, accessorCalls, last >>
threadVars == << pc, tw, tret, absentAtCheck, constructed >>

----------------------------------------------------------------------------
(* std::shared_ptr values *)

\* A default-constructed (empty) shared_ptr.
NullShared == [null |-> TRUE, obj |-> "nullptr"]

\* std::make_shared<T>( ptr, ... ): never empty; the new object holds ptr.
make_shared(ptr) == [null |-> FALSE, obj |-> ptr]

----------------------------------------------------------------------------
(* The engine, from its documented contract *)

\* s with md placed at 0-based position pos (0 <= pos <= Len(s)).
InsertAt(s, md, pos) == SubSeq(s, 1, pos) \o << md >> \o SubSeq(s, pos + 1, Len(s))

\* s without the entry at 0-based position pos (0 <= pos < Len(s)).
RemoveAt(s, pos) == SubSeq(s, 1, pos) \o SubSeq(s, pos + 2, Len(s))

\* Linear search from 0-based position i for the first entry equal to md.
RECURSIVE SearchFrom(_, _, _)
SearchFrom(s, md, i) ==
    IF i >= Len(s) THEN 0 - 1
    ELSE IF s[i + 1] = md THEN i
    ELSE SearchFrom(s, md, i + 1)

\* Append: -1 on a read-only list, else 0 with md added at the end.
libvlc_media_list_add_media(l, md) ==
    IF readonly[l] THEN {[ret |-> 0 - 1, items |-> items[l]]}
    ELSE {[ret |-> 0, items |-> Append(items[l], md)]}

\* Insert: -1 on a read-only list, else 0 with md placed at pos.  The
\* contract says nothing of a position outside 0..count on a writable list:
\* there the outcome is left open (no effect, or the list grows by an entry
\* that is not at pos).
libvlc_media_list_insert_media(l, md, pos) ==
    IF readonly[l] THEN {[ret |-> 0 - 1, items |-> items[l]]}
    ELSE IF pos >= 0 /\ pos <= Len(items[l])
         THEN {[ret |-> 0, items |-> InsertAt(items[l], md, pos)]}
    ELSE {[ret |-> 0, items |-> items[l]]}
         \cup {[ret |-> 0, items |-> Append(items[l], x)] : x \in MediaSet}

\* Remove: -1 on a read-only list or a position not found, else 0.
libvlc_media_list_remove_index(l, pos) ==
    IF readonly[l] \/ pos < 0 \/ pos >= Len(items[l])
    THEN {[ret |-> 0 - 1, items |-> items[l]]}
    ELSE {[ret |-> 0, items |-> RemoveAt(items[l], pos)]}

libvlc_media_list_count(l) == Len(items[l])

\* The media at pos (retained), or NULL if not found.
libvlc_media_list_item_at_index(l, pos) ==
    IF pos >= 0 /\ pos < Len(items[l]) THEN items[l][pos + 1] ELSE "nullptr"

\* The first matched position, or -1.
libvlc_media_list_index_of_item(l, md) == SearchFrom(items[l], md, 0)

libvlc_media_list_is_readonly(l) == readonly[l]

\* The list's event manager: one per list, never null.
libvlc_media_list_event_manager(l) == IF l = "L1" THEN "em_L1" ELSE "em_L2"

----------------------------------------------------------------------------
(* The wrapper: class MediaList *)

\* bool operator==(const MediaList& another) const
OperatorEq_deep(a, b) == items[m_obj[a]] = items[m_obj[b]]
OperatorEq(a, b) == m_obj[a] = m_obj[b]

\* int addMedia(Media& md)
addMedia_noForward(w, md) == {[ret |-> 0, items |-> items[m_obj[w]]]}
addMedia_statusDropped(w, md) ==
    {[ret |-> 0, items |-> o.items] : o \in libvlc_media_list_add_media(m_obj[w], md)}
addMedia(w, md) == libvlc_media_list_add_media(m_obj[w], md)

\* int insertMedia(Media& md, int pos)
insertMedia_posDropped(w, md, pos) == libvlc_media_list_add_media(m_obj[w], md)
insertMedia(w, md, pos) == libvlc_media_list_insert_media(m_obj[w], md, pos)

\* int removeIndex(int i_pos)
removeIndex_offByOne(w, i_pos) == libvlc_media_list_remove_index(m_obj[w], i_pos + 1)
removeIndex(w, i_pos) == libvlc_media_list_remove_index(m_obj[w], i_pos)

\* int count()
count(w) == libvlc_media_list_count(m_obj[w])

\* MediaPtr itemAtIndex(int i_pos): the engine's pointer, null or not, goes
\* straight into std::make_shared<Media>( ptr, false ).
itemAtIndex(w, i_pos) == make_shared(libvlc_media_list_item_at_index(m_obj[w], i_pos))

\* int indexOfItem(Media& md)
indexOfItem_count(w, md) == libvlc_media_list_count(m_obj[w])
indexOfItem(w, md) == libvlc_media_list_index_of_item(m_obj[w], md)

\* bool isReadonly()
isReadonly(w) == libvlc_media_list_is_readonly(m_obj[w])

\* The condition of eventManager(): if ( m_eventManager )
cacheSet_negated(w) == m_eventManager[w].null
cacheSet(w) == ~ m_eventManager[w].null

\* The body of that if: the handle built from the engine's accessor.
constructEventManager(w) == make_shared(libvlc_media_list_event_manager(m_obj[w]))

\* EventManagerPtr eventManager(): the cache after the call (which is also
\* what the call returns) and whether the accessor was called.
eventManager(w) ==
    IF cacheSet(w)
    THEN [cache |-> constructEventManager(w), called |-> TRUE]
    ELSE [cache |-> m_eventManager[w], called |-> FALSE]

----------------------------------------------------------------------------
(* The record of the last completed call *)

NoCall ==
    [op |-> "none", w |-> "w1", other |-> "w1", md |-> "nullptr", pos |-> 0,
     ret |-> 0, flag |-> FALSE, handle |-> NullShared, pre |-> << >>]

\* The four constructors: m_obj is the pointer the factory returned and
\* m_eventManager is default-constructed.  L1 comes from
\* libvlc_media_list_new: writable and empty.  L2 is the list of a media
\* discoverer: read-only, holding whatever the engine put there.
Init ==
    /\ readonly = [l \in Lists |-> l = "L2"]
    /\ items \in [Lists -> SeqsUpTo(MaxCount)]
    /\ \A l \in Lists : ~ readonly[l] => items[l] = << >>
    /\ m_obj \in [Wrappers -> Lists]
    /\ m_eventManager = [w \in Wrappers |-> NullShared]
    /\ accessorCalls = {}
    /\ last = NoCall
    /\ pc = [t \in Threads |-> "idle"]
    /\ tw = [t \in Threads |-> "w1"]
    /\ tret = [t \in Threads |-> NullShared]
    /\ absentAtCheck = [t \in Threads |-> FALSE]
    /\ constructed = [t \in Threads |-> FALSE]

\* Lists grow no longer than MaxCount.
Room(w) == readonly[m_obj[w]] \/ Len(items[m_obj[w]]) < MaxCount

CallAddMedia(w, md) ==
    /\ Room(w)
    /\ \E o \in addMedia(w, md) :
          /\ items' = [items EXCEPT ![m_obj[w]] = o.items]
          /\ last' = [NoCall EXCEPT !.op = "addMedia", !.w = w, !.md = md,
                                    !.ret = o.ret, !.pre = items[m_obj[w]]]
    /\ UNCHANGED << readonly, m_obj, m_eventManager, accessorCalls, threadVars >>

CallInsertMedia(w, md, pos) ==
    /\ Room(w)
    /\ \E o \in insertMedia(w, md, pos) :
          /\ items' = [items EXCEPT ![m_obj[w]] = o.items]
          /\ last' = [NoCall EXCEPT !.op = "insertMedia", !.w = w, !.md = md,
                                    !.pos = pos, !.ret = o.ret,
                                    !.pre = items[m_obj[w]]]
    /\ UNCHANGED << readonly, m_obj, m_eventManager, accessorCalls, threadVars >>

CallRemoveIndex(w, pos) ==
    /\ \E o \in removeIndex(w, pos) :
          /\ items' = [items EXCEPT ![m_obj[w]] = o.items]
          /\ last' = [NoCall EXCEPT !.op = "removeIndex", !.w = w, !.pos = pos,
                                    !.ret = o.ret, !.pre = items[m_obj[w]]]
    /\ UNCHANGED << readonly, m_obj, m_eventManager, accessorCalls, threadVars >>

CallCount(w) ==
    /\ last' = [NoCall EXCEPT !.op = "count", !.w = w, !.ret = count(w),
                              !.pre = items[m_obj[w]]]
    /\ UNCHANGED << items, readonly, m_obj, m_eventManager, accessorCalls, threadVars >>

CallItemAtIndex(w, pos) ==
    /\ last' = [NoCall EXCEPT !.op = "itemAtIndex", !.w = w, !.pos = pos,
                              !.handle = itemAtIndex(w, pos),
                              !.pre = items[m_obj[w]]]
    /\ UNCHANGED << items, readonly, m_obj, m_eventManager, accessorCalls, threadVars >>

CallIndexOfItem(w, md) ==
    /\ last' = [NoCall EXCEPT !.op = "indexOfItem", !.w = w, !.md = md,
                              !.ret = indexOfItem(w, md),
                              !.pre = items[m_obj[w]]]
    /\ UNCHANGED << items, readonly, m_obj, m_eventManager, accessorCalls, threadVars >>

CallIsReadonly(w) ==
    /\ last' = [NoCall EXCEPT !.op = "isReadonly", !.w = w, !.flag = isReadonly(w),
                              !.pre = items[m_obj[w]]]
    /\ UNCHANGED << items, readonly, m_obj, m_eventManager, accessorCalls, threadVars >>

CallOperatorEq(a, b) ==
    /\ last' = [NoCall EXCEPT !.op = "operator==", !.w = a, !.other = b,
                              !.flag = OperatorEq(a, b),
                              !.pre = items[m_obj[a]]]
    /\ UNCHANGED << items, readonly, m_obj, m_eventManager, accessorCalls, threadVars >>

CallEventManager(w) ==
    /\ m_eventManager' = [m_eventManager EXCEPT ![w] = eventManager(w).cache]
    /\ accessorCalls' = IF eventManager(w).called
                        THEN accessorCalls \cup {m_obj[w]} ELSE accessorCalls
    /\ last' = [NoCall EXCEPT !.op = "eventManager", !.w = w,
                              !.handle = eventManager(w).cache,
                              !.pre = items[m_obj[w]]]
    /\ UNCHANGED << items, readonly, m_obj, threadVars >>

Next ==
    \/ \E w \in Wrappers, md \in MediaSet : CallAddMedia(w, md)
    \/ \E w \in Wrappers, md \in MediaSet, pos \in Positions : CallInsertMedia(w, md, pos)
    \/ \E w \in Wrappers, pos \in Positions : CallRemoveIndex(w, pos)
    \/ \E w \in Wrappers : CallCount(w)
    \/ \E w \in Wrappers, pos \in Positions : CallItemAtIndex(w, pos)
    \/ \E w \in Wrappers, md \in MediaSet : CallIndexOfItem(w, md)
    \/ \E w \in Wrappers : CallIsReadonly(w)
    \/ \E a \in Wrappers, b \in Wrappers : CallOperatorEq(a, b)
    \/ \E w \in Wrappers : CallEventManager(w)

Spec == Init /\ [][Next]_vars

----------------------------------------------------------------------------
(* eventManager() called from several threads, one statement at a time *)

\* A thread enters eventManager() on wrapper w.
BeginEventManager(t, w) ==
    /\ pc[t] = "idle"
    /\ pc' = [pc EXCEPT ![t] = "check"]
    /\ tw' = [tw EXCEPT ![t] = w]
    /\ absentAtCheck' = [absentAtCheck EXCEPT ![t] = FALSE]
    /\ constructed' = [constructed EXCEPT ![t] = FALSE]
    /\ UNCHANGED << tret, listVars >>

\* The thread's next statement: the test of line 230, the body of lines
\* 232-233, or the return of line 235.
StepEventManager(t) ==
    /\ pc[t] # "idle"
    /\ CASE pc[t] = "check" ->
              /\ pc' = [pc EXCEPT ![t] = IF cacheSet(tw[t]) THEN "construct" ELSE "return"]
              /\ absentAtCheck' = [absentAtCheck EXCEPT ![t] = m_eventManager[tw[t]].null]
              /\ UNCHANGED << tw, tret, constructed, listVars >>
         [] pc[t] = "construct" ->
              /\ m_eventManager' = [m_eventManager EXCEPT ![tw[t]] = constructEventManager(tw[t])]
              /\ accessorCalls' = accessorCalls \cup {m_obj[tw[t]]}
              /\ constructed' = [constructed EXCEPT ![t] = TRUE]
              /\ pc' = [pc EXCEPT ![t] = "return"]
              /\ UNCHANGED << tw, tret, absentAtCheck, items, readonly, m_obj, last >>
         [] pc[t] = "return" ->
              /\ tret' = [tret EXCEPT ![t] = m_eventManager[tw[t]]]
              /\ pc' = [pc EXCEPT ![t] = "idle"]
              /\ UNCHANGED << tw, absentAtCheck, constructed, listVars >>

ThreadNext ==
    \/ \E t \in Threads, w \in Wrappers : BeginEventManager(t, w)
    \/ \E t \in Threads : StepEventManager(t)

ThreadSpec == Init /\ [][ThreadNext]_vars

----------------------------------------------------------------------------
(* Properties *)

\* The list behind the wrapper of the last call, as it is now.
Now == items[m_obj[last.w]]

\* Whether the last call's position was a position of the list it was given.
InRange == last.pos >= 0 /\ last.pos < Len(last.pre)

\* C1: every call of eventManager() returns a non-null handle that wraps the
\* event manager of the wrapper's list, and that handle is what the cache
\* holds afterwards (so any two calls on one wrapper return the same handle).
C1_EventManagerCachedHandle ==
    last.op = "eventManager" =>
        /\ ~ last.handle.null
        /\ last.handle.obj = libvlc_media_list_event_manager(m_obj[last.w])
        /\ m_eventManager[last.w] = last.handle

\* C2: itemAtIndex(position) returns a handle to the media stored at the
\* position when the position is in range and a null result when it is not;
\* the list is unchanged either way.
C2_ItemAtIndexNullWhenOutOfRange ==
    last.op = "itemAtIndex" =>
        /\ IF InRange
           THEN last.handle = make_shared(last.pre[last.pos + 1])
           ELSE last.handle.null
        /\ Now = last.pre

\* C3: on a read-only list addMedia, insertMedia and removeIndex return -1
\* whatever their arguments, and leave count() and the items as they were.
C3_ReadonlyMutationsFail ==
    (last.op \in {"addMedia", "insertMedia", "removeIndex"} /\ isReadonly(last.w)) =>
        /\ last.ret = 0 - 1
        /\ count(last.w) = Len(last.pre)
        /\ Now = last.pre

\* A removeIndex of an existing position of a read-only list of two or more.
C3_Witness ==
    /\ last.op = "removeIndex"
    /\ isReadonly(last.w)
    /\ InRange
    /\ Len(last.pre) >= 2
    /\ last.ret = 0 - 1

\* C4: on a writable list removeIndex(p) with p in range returns 0, count()
\* drops by one, the items before p stay and the items after p move down by
\* one; with p out of range it returns -1 and changes nothing.
C4_RemoveIndex ==
    (last.op = "removeIndex" /\ ~ isReadonly(last.w)) =>
        IF InRange
        THEN /\ last.ret = 0
             /\ count(last.w) = Len(last.pre) - 1
             /\ \A i \in 0 .. (Len(last.pre) - 1) :
                   /\ i < last.pos => Now[i + 1] = last.pre[i + 1]
                   /\ i > last.pos => Now[i] = last.pre[i + 1]
        ELSE /\ last.ret = 0 - 1
             /\ count(last.w) = Len(last.pre)
             /\ Now = last.pre

\* The middle item of a writable list of three was removed.
C4_Witness ==
    /\ last.op = "removeIndex"
    /\ ~ isReadonly(last.w)
    /\ Len(last.pre) = 3
    /\ last.pos = 1
    /\ last.ret = 0
    /\ Now = << last.pre[1], last.pre[3] >>

\* What C5 promises of the state after insertMedia(m, p).
InsertPost ==
    /\ itemAtIndex(last.w, last.pos) = make_shared(last.md)
    /\ count(last.w) = Len(last.pre) + 1
    /\ \A i \in 0 .. (Len(last.pre) - 1) :
          i >= last.pos => itemAtIndex(last.w, i + 1) = make_shared(last.pre[i + 1])

\* C5 as stated: after insertMedia(m, p) on a writable list, for any p,
\* itemAtIndex(p) is m, count() is one more, and every item that was at a
\* position >= p is one position further.
C5_InsertAnyPosition ==
    (last.op = "insertMedia" /\ ~ isReadonly(last.w)) => InsertPost

\* C5 amended: the same, for a position p with 0 <= p <= count().
C5_InsertValidPosition ==
    (last.op = "insertMedia" /\ ~ isReadonly(last.w)
        /\ last.pos >= 0 /\ last.pos <= Len(last.pre)) => InsertPost

\* B was inserted at 0 into [A]: the list is now [B, A].
C5_Witness ==
    /\ last.op = "insertMedia"
    /\ ~ isReadonly(last.w)
    /\ last.pre = << "A" >>
    /\ last.md = "B"
    /\ last.pos = 0
    /\ Now = << "B", "A" >>

\* C6: after addMedia(m) returned 0, count() is one more than before and
\* indexOfItem(m) is a position of the list.
C6_AddThenIndexOf ==
    (last.op = "addMedia" /\ last.ret = 0) =>
        /\ count(last.w) = Len(last.pre) + 1
        /\ indexOfItem(last.w, last.md) >= 0
        /\ indexOfItem(last.w, last.md) < count(last.w)

\* addMedia(m) succeeded on a list that already held m, behind another item.
C6_Witness ==
    /\ last.op = "addMedia"
    /\ last.ret = 0
    /\ Len(last.pre) = 2
    /\ last.pre[1] # last.md
    /\ last.pre[2] = last.md

\* The positions of the list the last call was given that hold its media.
Hits == {i \in 0 .. (Len(last.pre) - 1) : last.pre[i + 1] = last.md}

\* C7: indexOfItem(m) is the smallest position holding m, is -1 exactly when
\* no position holds m, and leaves the list unchanged.
C7_IndexOfItemFirstMatch ==
    last.op = "indexOfItem" =>
        /\ (Hits = {}) <=> (last.ret = 0 - 1)
        /\ Hits # {} => (last.ret \in Hits /\ \A i \in Hits : last.ret <= i)
        /\ Now = last.pre

\* indexOfItem of a media held twice, behind another item.
C7_Witness ==
    /\ last.op = "indexOfItem"
    /\ Len(last.pre) = 3
    /\ Hits = {1, 2}
    /\ last.ret = 1

\* C8: a == b is true exactly when both wrappers hold the same list pointer,
\* whatever the lists contain and whatever the event-manager caches hold.
C8_EqualityIsPointerIdentity ==
    last.op = "operator==" =>
        (last.flag <=> (m_obj[last.w] = m_obj[last.other]))

\* Two wrappers of different lists with the same, non-empty contents were
\* compared and found unequal.
C8_Witness ==
    /\ last.op = "operator=="
    /\ m_obj[last.w] # m_obj[last.other]
    /\ items[m_obj[last.w]] = items[m_obj[last.other]]
    /\ Len(items[m_obj[last.w]]) >= 1
    /\ ~ last.flag

\* C9: threads calling eventManager() concurrently on a fresh wrapper race
\* to construct the handle: when two threads are inside the call on the same
\* wrapper and both found the cache absent at the test, one of them writes
\* the cache (it is at lines 232-233, or has executed them) while the other
\* is still inside the call.  (The first test on a fresh wrapper always finds
\* the cache absent and a write only follows a test, so some interleaving
\* holds a racing write exactly when this is so.)
C9_ThreadsRaceToConstruct ==
    \A t \in Threads, u \in Threads :
        (/\ t # u
         /\ tw[t] = tw[u]
         /\ pc[t] \in {"construct", "return"}
         /\ pc[u] \in {"construct", "return"}
         /\ absentAtCheck[t]
         /\ absentAtCheck[u]) =>
            (pc[t] = "construct" \/ constructed[t] \/ pc[u] = "construct" \/ constructed[u])

\* C10: the cache of every wrapper is null in every reachable state, the
\* engine's event-manager accessor is never called, and eventManager()
\* returns null.
C10_CacheNullForever ==
    /\ \A w \in Wrappers : m_eventManager[w].null
    /\ accessorCalls = {}
    /\ last.op = "eventManager" => last.handle.null

\* eventManager() returned, on a wrapper whose list had been filled before.
C10_Witness ==
    /\ last.op = "eventManager"
    /\ last.handle = NullShared
    /\ Len(last.pre) >= 1

====
